---- MODULE Spec2Model ----
(***************************************************************************)
(* Block-producer database service of CovenantSQL: database creation and   *)
(* removal (DBService), the node allocator, the deploy fan-out and the     *)
(* service map it registers instances in.                                  *)
(***************************************************************************)
EXTENDS Integers, Sequences, FiniteSets, TLC

\* ------------------------------------------------------------------ bounds
NumNodes == 4
NumBPs == 1
NumCallers == 2
NumRequesters == 1
MinerWorkers == 2
MaxCalls == 2
MaxMem == 2
MaxNodeReq == 2
MaxNonce == 24
HashBits == 6
NumTargets == 1
MaxDialCalls == 2
IDBytes == 1
NonceBytes == 1
TagBits == 1
MaxField == 1
MaxArrayLen == 3
MaxIDLen == 2
MaxStartNonce == 3

\* ------------------------------------------------------- program constants
DefaultAllocationRounds == 3
Difficulty == 4

MetricKeyFreeMemory == << "node_memory_free_bytes_total", "node_memory_MemFree_bytes" >>

\* ------------------------------------------------------------- value sets
Nodes == 1..NumNodes
Callers == 1..NumCallers
Nil == "nil"
NilPeers == [nil |-> TRUE]
NilServer == [nil |-> TRUE]
NilInstance == [nil |-> TRUE]
NoFamily == [absent |-> TRUE]
Requesters == 1..NumRequesters
ErrDatabaseAllocation == "ErrDatabaseAllocation"
ErrNoSuchDatabase == "ErrNoSuchDatabase"
ErrMetricNotCollected == "ErrMetricNotCollected"
ErrSignVerification == "ErrSignVerification"
ErrStoreCommit == "ErrStoreCommit"
ErrCallNode == "ErrCallNode"

\* proto.Node descriptors known to the ring: the first NumBPs nodes are block
\* producers (one Leader, the rest Followers), every other node is a Miner.
RoleOf(n) == IF n > NumBPs THEN "Miner" ELSE IF n = 1 THEN "Leader" ELSE "Follower"

GetBPs == { n \in Nodes : n <= NumBPs }

HashSpace == 2 ^ HashBits
DatabaseIDs == 0..(2 ^ (HashBits - Difficulty) - 1)

\* A metric family as getMetric reads it: its type and first sample's value.
Family(t, v) == [type |-> t, value |-> v]

\* How a platform reports free memory: the mac key as a gauge; only the linux
\* key, as a counter; the mac key with a type getMetric does not read beside
\* the linux key as a gauge.
Platforms == {"mac", "linux", "mixed"}
NotCollected == MaxMem + 1

\* The metric map of a node of the platform whose free memory is v
\* (NotCollected: no free-memory key was scraped).
MetricMapOf(platform, v) ==
    [ k \in {MetricKeyFreeMemory[1], MetricKeyFreeMemory[2]} |->
        IF v = NotCollected THEN NoFamily
        ELSE IF k = MetricKeyFreeMemory[1]
             THEN CASE platform = "mac"   -> Family("GAUGE", v)
                    [] platform = "linux" -> NoFamily
                    [] OTHER              -> Family("HISTOGRAM", 0)
             ELSE CASE platform = "mac"   -> NoFamily
                    [] platform = "linux" -> Family("COUNTER", v)
                    [] OTHER              -> Family("GAUGE", v) ]

VARIABLES
    metrics,        \* NodeMetrics: node -> metric map
    includeBP,      \* DBService.includeBPNodesForAllocation
    dbMap,          \* ServiceMap: DatabaseID -> ServiceInstance (or Nil)
    nodeMap,        \* ServiceMap reverse index: node -> set of DatabaseID
    pc,             \* per caller: position inside the handler it runs
    req,            \* per caller: the request being served
    dbID,           \* per caller: DatabaseID of the request
    startNonce,     \* per caller: generateDatabaseID's search cursor
    alloc,          \* per caller: allocateNodes' locals
    peers,          \* per caller: *kayak.Peers (or Nil)
    fan,            \* per caller: the batchSendSvcReq in progress
    err,            \* per caller: the handler's err
    resp,           \* per caller: the response's InstanceMeta (or Nil)
    calls,          \* per caller: requests served so far
    dpc,            \* per caller: position inside DialToNode
    dcall,          \* per caller: DialToNode's arguments and locals
    dret,           \* per caller: what DialToNode returns (conn, err)
    conns,          \* every connection net.Dial has made, with what went over it
    sessions,       \* every yamux session made
    pool,           \* SessionPool: the sessions it holds
    txTypeMapping,  \* transaction type registry: tag -> registered type
    encoded,        \* the wrapper CodecEncodeSelf was called on
    wire,           \* the msgpack value on the wire
    wrapper,        \* the wrapper CodecDecodeSelf is called on
    before,         \* its Transaction when CodecDecodeSelf was called
    decErr,         \* the error the decode ended with
    decoded,        \* CodecDecodeSelf has run
    cfg,            \* a client Config
    dsn,            \* a DSN string
    parsed,         \* what ParseDSN returned
    miner,          \* one turn of generateDatabaseID: the block mined and where from
    workers,        \* the miner's workers: what each is doing and the nonce it is at
    quitCh,         \* the turn's stop channel
    nonceCh,        \* the turn's nonce channel
    gpc,            \* the allocator's position in the turn
    recvNonce       \* the nonce the allocator received

rpcVars == << dpc, dcall, dret, conns, sessions, pool >>

svcVars == << metrics, includeBP, dbMap, nodeMap, pc, req, dbID, startNonce,
              alloc, peers, fan, err, resp, calls >>

codecVars == << txTypeMapping, encoded, wire, wrapper, before, decErr, decoded >>

dsnVars == << cfg, dsn, parsed >>

mineVars == << miner, workers, quitCh, nonceCh, gpc, recvNonce >>

pureVars == << codecVars, dsnVars, mineVars >>

vars == << svcVars, rpcVars, pureVars >>

\* --------------------------------------------------------------- helpers
RECURSIVE SeqToSet(_)
SeqToSet(s) == IF s = << >> THEN {} ELSE {Head(s)} \cup SeqToSet(Tail(s))

RECURSIVE FilterSeq(_, _)
FilterSeq(s, keep) ==
    IF s = << >> THEN << >>
    ELSE IF Head(s) \in keep THEN << Head(s) >> \o FilterSeq(Tail(s), keep)
         ELSE FilterSeq(Tail(s), keep)

Take(s, n) == SubSeq(s, 1, IF n < Len(s) THEN n ELSE Len(s))

\* Every sequence that lists each element of the set S exactly once.
Orderings(S) ==
    { s \in [1..Cardinality(S) -> S] : \A i, j \in 1..Cardinality(S) : i # j => s[i] # s[j] }

\* ------------------------------------------------------------- PoW miner
\* The domain hash of data || nonce, scaled to HashBits bits.
HashOf(data, nonce) == (data + nonce + 14 * nonce * nonce * data) % HashSpace

\* A candidate is accepted when the leading Difficulty bits of its hash are zero.
Accepted(data, nonce) == HashOf(data, nonce) < 2 ^ (HashBits - Difficulty)

\* cpuminer.ComputeBlockNonce: the workers stride through the nonces from
\* startNonce; each one's first accepted nonce may be the one that reaches the
\* nonce channel first.
ComputeBlockNonce(data, start) ==
    { n \in start..MaxNonce :
        /\ Accepted(data, n)
        /\ \A m \in start..(n - 1) :
              (m - start) % MinerWorkers = (n - start) % MinerWorkers => ~Accepted(data, m) }

\* An Inc that leaves the nonce as it is.
IncSame(nonce) == nonce

\* cpuminer.Uint256.Inc
Inc(nonce) == nonce + 1

\* ------------------------------------------------- consistent-hash ring
\* Position of a key on the ring; the node at position p is node p.
KeyPos(key) == (key % NumNodes) + 1

\* The nodes met clockwise from the key's position, once each.
RingFrom(key) == [ i \in 1..NumNodes |-> ((KeyPos(key) + i - 2) % NumNodes) + 1 ]

\* consistent.GetNeighborsEx: the first n nodes clockwise from the key whose
\* role is in the filter.
GetNeighborsEx(key, n, roles) ==
    Take(FilterSeq(RingFrom(key), { x \in Nodes : RoleOf(x) \in roles }), n)

\* metric.NodeMetricMap.GetMetrics: the latest metric map of each asked node.
GetMetrics(nodeIDs) == [ n \in SeqToSet(nodeIDs) |-> metrics[n] ]

\* ------------------------------------------------------------ allocator
RECURSIVE getMetricFrom(_, _, _)
getMetricFrom(metric, keys, k) ==
    IF k > Len(keys) THEN [value |-> 0, err |-> ErrMetricNotCollected]
    ELSE LET rawMetric == metric[keys[k]]
         IN IF rawMetric = NoFamily THEN getMetricFrom(metric, keys, k + 1)
            ELSE IF rawMetric.type \in {"GAUGE", "COUNTER"}
                 THEN [value |-> rawMetric.value, err |-> Nil]
                 ELSE getMetricFrom(metric, keys, k + 1)

getMetric(metric, keys) == getMetricFrom(metric, keys, 1)

\* The test of the free memory read for a node against the memory asked for.
CanAllocate(memory, metricValue) == memory < metricValue

\* The accepted nodes in the order the range over the metric map met them.
SortedByMetricUnsorted(accepted) == Orderings(accepted)

\* sort.Slice by MemoryMetric, greatest first: the sort is not stable and the
\* metric map is ranged over in no fixed order, so equal metrics may come out
\* in any order.
SortedByMetric(accepted) ==
    { s \in Orderings(accepted) :
        \A i \in 1..(Len(s) - 1) : ~(s[i + 1].MemoryMetric > s[i].MemoryMetric) }

Server(role, id) == [Role |-> role, ID |-> id]

\* buildPeers without the allocatedMap test: every ring node gets a slot.
buildServersUnfiltered(nodes, allocated) ==
    [ idx \in 1..Len(nodes) |-> Server("Follower", nodes[idx]) ]

\* Servers as buildPeers fills it: len(allocated) slots, slot idx taken by the
\* idx-th node of `nodes` that is allocated, every server a Follower.
buildServers(nodes, allocated) ==
    LET allocatedNodes == FilterSeq(nodes, SeqToSet(allocated))
    IN [ idx \in 1..Len(allocated) |->
           IF idx <= Len(allocatedNodes) THEN Server("Follower", allocatedNodes[idx]) ELSE NilServer ]

\* buildPeers that leaves every server a Follower.
buildPeersNoLeader(term, nodes, allocated) ==
    [ Term |-> term, Leader |-> 1, Servers |-> buildServers(nodes, allocated) ]

\* The first server is made the Leader; Peers.Leader refers to Servers[0]
\* (kept as its index).
buildPeers(term, nodes, allocated) ==
    LET servers == buildServers(nodes, allocated)
    IN [ Term    |-> term,
         Leader  |-> 1,
         Servers |-> [servers EXCEPT ![1] = Server("Leader", servers[1].ID)] ]

peersToNodes(p) == IF p = NilPeers THEN << >> ELSE [ i \in 1..Len(p.Servers) |-> p.Servers[i].ID ]

generateGenesisBlock(id) ==
    [Producer |-> "local", GenesisHash |-> 0, ParentHash |-> 0]

\* ---------------------------------------------------------- service map
ServiceMapGet(id) == IF id \in DOMAIN dbMap THEN dbMap[id] ELSE NilInstance

\* DBServiceMap.Set once the store has acknowledged the commit.
ServiceMapSet(meta) ==
    /\ dbMap' = [ id \in DOMAIN dbMap \cup {meta.DatabaseID} |->
                    IF id = meta.DatabaseID THEN meta ELSE dbMap[id] ]
    /\ nodeMap' = [ n \in Nodes |->
                    IF n \in SeqToSet(peersToNodes(meta.Peers))
                    THEN nodeMap[n] \cup {meta.DatabaseID}
                    ELSE nodeMap[n] \ {meta.DatabaseID} ]

\* DBServiceMap.Delete once the store has acknowledged the commit.
ServiceMapDelete(id) ==
    /\ dbMap' = [ x \in DOMAIN dbMap \ {id} |-> dbMap[x] ]
    /\ nodeMap' = [ n \in Nodes |-> nodeMap[n] \ {id} ]

\* DBServiceMap.GetDatabases
GetDatabases(n) == nodeMap[n]

\* ------------------------------------------------- transaction wrapper
ErrInvalidContainerType == "ErrInvalidContainerType"
ErrInvalidTransactionType == "ErrInvalidTransactionType"
ErrDecode == "codec decode error"

\* Transaction types: each has one field X and answers GetTransactionType
\* with its own tag.
TxTypes == {"TxA", "TxB"}
TxWrapperType == "TransactionWrapper"
NoType == "none"
NilTx == [nil |-> TRUE]
Tx(rt, x) == [rt |-> rt, X |-> x]
Transactions == { Tx(rt, x) : rt \in TxTypes, x \in 0..MaxField }
GetTransactionType(tx) == IF tx.rt = "TxA" THEN 0 ELSE 1

\* TransactionType is read as a number of TagBits bits.
TxTags == 0..(2 ^ TagBits - 1)

\* msgpack values.
MpNil == [kind |-> "nil"]
MpUint(n) == [kind |-> "uint", v |-> n]
MpMap(x) == [kind |-> "map", X |-> x]
MpArray(elems) == [kind |-> "array", elems |-> elems]
valueTypeArray == "array"

\* What a peer may put on the wire.
MpElems == {MpNil} \cup { MpUint(n) : n \in 0..(2 ^ TagBits) } \cup { MpMap(x) : x \in 0..MaxField }
MpValues ==
    MpElems \cup { MpArray(e) : e \in UNION { [1..n -> MpElems] : n \in 0..MaxArrayLen } }

NilWrapper == [nil |-> TRUE]
Wrapper(tx) == [Transaction |-> tx]
NoWire == [kind |-> "none"]

\* EncFallback of a transaction: its fields as a map.
EncFallback(tx) == MpMap(tx.X)

\* CodecEncodeSelf that writes the tag after the body.
CodecEncodeSelfBodyFirst(wr) ==
    IF wr = NilWrapper \/ wr.Transaction = NilTx
    THEN MpNil
    ELSE MpArray(<< EncFallback(wr.Transaction), MpUint(GetTransactionType(wr.Transaction)) >>)

\* TransactionWrapper.CodecEncodeSelf: what it writes.
CodecEncodeSelf(wr) ==
    IF wr = NilWrapper \/ wr.Transaction = NilTx
    THEN MpNil
    ELSE MpArray(<< MpUint(GetTransactionType(wr.Transaction)), EncFallback(wr.Transaction) >>)

\* NewTransaction that instantiates type TxA for a tag that is not registered.
NewTransactionDefault(mapping, t) ==
    IF mapping[t] = NoType THEN [tx |-> Tx("TxA", 0), err |-> Nil]
    ELSE [tx |-> Tx(mapping[t], 0), err |-> Nil]

\* NewTransaction: a zero value of the type registered for the tag.
NewTransaction(mapping, t) ==
    IF mapping[t] = NoType THEN [tx |-> NilTx, err |-> ErrInvalidTransactionType]
    ELSE IF mapping[t] = TxWrapperType THEN [tx |-> NilTx, err |-> ErrInvalidTransactionType]
    ELSE [tx |-> Tx(mapping[t], 0), err |-> Nil]

\* The loop of CodecDecodeSelf from element i on; tx is w.Transaction so far.
\* A panic ends the decode with w.Transaction as it stands.
RECURSIVE decodeElems(_, _, _, _)
decodeElems(mapping, elems, i, tx) ==
    IF i > Len(elems) THEN [Transaction |-> tx, err |-> Nil]
    ELSE LET e == elems[i]
         IN IF i = 1
            THEN IF e = MpNil THEN [Transaction |-> tx, err |-> ErrInvalidTransactionType]
                 ELSE IF e.kind # "uint" THEN [Transaction |-> tx, err |-> ErrDecode]
                 ELSE IF e.v >= 2 ^ TagBits THEN [Transaction |-> tx, err |-> ErrDecode]
                 ELSE LET r == NewTransaction(mapping, e.v)
                      IN IF r.err # Nil THEN [Transaction |-> r.tx, err |-> r.err]
                         ELSE decodeElems(mapping, elems, i + 1, r.tx)
            ELSE IF i = 2
            THEN IF e = MpNil THEN decodeElems(mapping, elems, i + 1, tx)
                 ELSE IF e.kind # "map" THEN [Transaction |-> tx, err |-> ErrDecode]
                 ELSE decodeElems(mapping, elems, i + 1, [tx EXCEPT !.X = e.X])
            ELSE decodeElems(mapping, elems, i + 1, tx)

\* CodecDecodeSelf that reads the array without looking at the container type.
CodecDecodeSelfUnchecked(mapping, value) ==
    IF value.kind # valueTypeArray THEN [Transaction |-> NilTx, err |-> ErrDecode]
    ELSE decodeElems(mapping, value.elems, 1, NilTx)

\* CodecDecodeSelf that takes nothing but an array of two elements.
CodecDecodeSelfStrict(mapping, value) ==
    IF value.kind # valueTypeArray THEN [Transaction |-> NilTx, err |-> ErrInvalidContainerType]
    ELSE IF Len(value.elems) # 2 THEN [Transaction |-> NilTx, err |-> ErrInvalidContainerType]
    ELSE decodeElems(mapping, value.elems, 1, NilTx)

\* TransactionWrapper.CodecDecodeSelf: the wrapper's Transaction after it and
\* the error it panicked with, if any.
CodecDecodeSelf(mapping, value) ==
    IF value.kind # valueTypeArray THEN [Transaction |-> NilTx, err |-> ErrInvalidContainerType]
    ELSE decodeElems(mapping, value.elems, 1, NilTx)

InitCodecIdle ==
    /\ txTypeMapping = [t \in TxTags |-> NoType]
    /\ encoded = NilWrapper
    /\ wire = NoWire
    /\ wrapper = Wrapper(NilTx)
    /\ before = NilTx
    /\ decErr = Nil
    /\ decoded = FALSE

\* RegisterTransaction at process init.
RegisterTransaction(t, tx) ==
    /\ wire = NoWire
    /\ IF tx = NilTx THEN UNCHANGED txTypeMapping
       ELSE IF tx.rt = TxWrapperType THEN UNCHANGED txTypeMapping
       ELSE txTypeMapping' = [txTypeMapping EXCEPT ![t] = tx.rt]
    /\ UNCHANGED << svcVars, rpcVars, dsnVars, mineVars, encoded, wire, wrapper, before, decErr, decoded >>

\* A wrapper is encoded to the wire.
Encode ==
    /\ wire = NoWire
    /\ \E wr \in {NilWrapper} \cup { Wrapper(tx) : tx \in {NilTx} \cup Transactions } :
          /\ encoded' = wr
          /\ wire' = CodecEncodeSelf(wr)
    /\ UNCHANGED << svcVars, rpcVars, dsnVars, mineVars, txTypeMapping, wrapper, before, decErr, decoded >>

\* A peer's bytes arrive.
Receive ==
    /\ wire = NoWire
    /\ wire' \in MpValues
    /\ UNCHANGED << svcVars, rpcVars, dsnVars, mineVars, txTypeMapping, encoded, wrapper, before, decErr, decoded >>

\* The wire is decoded into the wrapper.
Decode ==
    /\ wire # NoWire
    /\ ~decoded
    /\ LET r == CodecDecodeSelf(txTypeMapping, wire)
       IN /\ wrapper' = Wrapper(r.Transaction)
          /\ decErr' = r.err
    /\ before' = wrapper.Transaction
    /\ decoded' = TRUE
    /\ UNCHANGED << svcVars, rpcVars, dsnVars, mineVars, txTypeMapping, encoded, wire >>

\* ------------------------------------------------------------ client DSN
\* Strings are sequences of characters.
DBScheme == << "c", "o", "v", "e", "n", "a", "n", "t", "s", "q", "l" >>
DBSchemeAlias == << "c", "q", "l" >>
HexChars == {"a", "c", "1"}
Digits == {"1", "2"}
Letters == {"a", "c", "e", "l", "n", "o", "q", "s", "t", "v", "F"}

\* A DatabaseID is written in hex characters; one with a slash in it stands
\* for the strings that are not.
IDChars == HexChars \cup {"/"}
IDStrings == UNION { [1..n -> IDChars] : n \in 0..MaxIDLen }

Config(id) == [DatabaseID |-> id]
NilConfig == [nil |-> TRUE]
NoDSN == [from |-> "none"]
NoParse == [none |-> TRUE]
ErrParse == "url parse error"

HasPrefix(str, prefix) == Len(str) >= Len(prefix) /\ SubSeq(str, 1, Len(prefix)) = prefix

\* Index of the first occurrence of ch in str at or after position from;
\* Len(str) + 1 if there is none.
RECURSIVE IndexFrom(_, _, _)
IndexFrom(str, ch, from) ==
    IF from > Len(str) THEN Len(str) + 1
    ELSE IF str[from] = ch THEN from
    ELSE IndexFrom(str, ch, from + 1)

\* url escape of a host: letters and digits stand for themselves, a slash is
\* percent-encoded.
RECURSIVE EscapeHost(_)
EscapeHost(str) ==
    IF str = << >> THEN << >>
    ELSE (IF Head(str) = "/" THEN << "%", "2", "F" >> ELSE << Head(str) >>) \o EscapeHost(Tail(str))

\* url.URL.String of a URL that has a scheme and a host and nothing else: the
\* scheme and a colon, then two slashes and the escaped host if the host is
\* not empty.
URLString(scheme, host) ==
    scheme \o << ":" >> \o (IF host # << >> THEN << "/", "/" >> \o EscapeHost(host) ELSE << >>)

\* The length of the scheme url.Parse finds at the start of a string: letters
\* up to a colon; 0 if a digit comes first or another character comes before
\* any colon.
RECURSIVE SchemeLen(_, _)
SchemeLen(str, i) ==
    IF i > Len(str) THEN 0
    ELSE IF str[i] \in Letters THEN SchemeLen(str, i + 1)
    ELSE IF str[i] \in Digits THEN (IF i = 1 THEN 0 ELSE SchemeLen(str, i + 1))
    ELSE IF str[i] = ":" THEN i - 1
    ELSE 0

\* url.Parse, for strings without query and fragment: the scheme, then after
\* two slashes the authority up to the next slash as the host. A percent
\* escape of an ASCII byte in the host is an error, and so is a port that is
\* not a number; a string that starts with a colon has no scheme to parse.
ParseURL(str) ==
    IF str # << >> /\ str[1] = ":" THEN [Scheme |-> << >>, Host |-> << >>, err |-> ErrParse]
    ELSE LET n == SchemeLen(str, 1)
             scheme == SubSeq(str, 1, n)
             rest == IF n = 0 THEN str ELSE SubSeq(str, n + 2, Len(str))
         IN IF HasPrefix(rest, << "/", "/" >>) /\ (n > 0 \/ ~HasPrefix(rest, << "/", "/", "/" >>))
            THEN LET end == IndexFrom(rest, "/", 3)
                     authority == SubSeq(rest, 3, end - 1)
                     colon == IndexFrom(authority, ":", 1)
                     port == SubSeq(authority, colon + 1, Len(authority))
                 IN IF IndexFrom(authority, "%", 1) <= Len(authority)
                    THEN [Scheme |-> scheme, Host |-> << >>, err |-> ErrParse]
                    ELSE IF colon <= Len(authority) /\ \E i \in DOMAIN port : port[i] \notin Digits
                    THEN [Scheme |-> scheme, Host |-> << >>, err |-> ErrParse]
                    ELSE [Scheme |-> scheme, Host |-> authority, err |-> Nil]
            ELSE IF n = 0 /\ IndexFrom(rest, ":", 1) < IndexFrom(rest, "/", 1)
            THEN [Scheme |-> scheme, Host |-> << >>, err |-> ErrParse]
            ELSE [Scheme |-> scheme, Host |-> << >>, err |-> Nil]

\* FormatDSN that puts the DatabaseID right after the scheme.
FormatDSNOpaque(c) == DBScheme \o << ":" >> \o c.DatabaseID

\* Config.FormatDSN
FormatDSN(c) == URLString(DBScheme, c.DatabaseID)

\* ParseDSN
ParseDSN(str) ==
    LET full == IF ~HasPrefix(str, DBScheme) /\ ~HasPrefix(str, DBSchemeAlias)
                THEN DBScheme \o << ":", "/", "/" >> \o str
                ELSE str
        u == ParseURL(full)
    IN IF u.err # Nil THEN [cfg |-> NilConfig, err |-> u.err]
       ELSE [cfg |-> Config(u.Host), err |-> Nil]

InitDSNIdle ==
    /\ cfg = Config(<< >>)
    /\ dsn = NoDSN
    /\ parsed = NoParse

\* The Config is formatted into a DSN.
Format ==
    /\ dsn = NoDSN
    /\ dsn' = [from |-> "FormatDSN", str |-> FormatDSN(cfg)]
    /\ UNCHANGED << svcVars, rpcVars, codecVars, mineVars, cfg, parsed >>

\* A DSN comes from the user: a DatabaseID bare, or after one of the schemes,
\* with or without the separator.
Supply ==
    /\ dsn = NoDSN
    /\ \E prefix \in {<< >>, DBScheme, DBSchemeAlias,
                       DBScheme \o << ":", "/", "/" >>, DBSchemeAlias \o << ":", "/", "/" >>} :
          dsn' = [from |-> "user", str |-> prefix \o cfg.DatabaseID]
    /\ UNCHANGED << svcVars, rpcVars, codecVars, mineVars, cfg, parsed >>

\* The DSN is parsed.
Parse ==
    /\ dsn # NoDSN
    /\ parsed = NoParse
    /\ parsed' = ParseDSN(dsn.str)
    /\ UNCHANGED << svcVars, rpcVars, codecVars, mineVars, cfg, dsn >>

\* ------------------------------------------- one turn of ID generation
\* generateDatabaseID's loop body up to the close of its channels, with the
\* miner's workers as goroutines of their own. A worker checks the stop
\* channel, hashes the nonce it is at and, when the nonce is accepted, sends
\* it on the nonce channel and goes on from its next nonce.
Workers == 1..MinerWorkers
NoNonce == MaxNonce + 1
IdleMiner == [Data |-> 0, startNonce |-> 0, selects |-> FALSE]
IdleWorker == [st |-> "idle", nonce |-> 0]

InitMineIdle ==
    /\ miner = IdleMiner
    /\ workers = [w \in Workers |-> IdleWorker]
    /\ quitCh = "open"
    /\ nonceCh = "open"
    /\ gpc = "idle"
    /\ recvNonce = NoNonce

\* go miner.ComputeBlockNonce(...): the workers start, worker w at the w-th
\* nonce from startNonce, and the allocator waits on the nonce channel.
StartMiner ==
    /\ gpc = "start"
    /\ workers' = [w \in Workers |-> [st |-> "search", nonce |-> miner.startNonce + w - 1]]
    /\ gpc' = "recv"
    /\ UNCHANGED << svcVars, rpcVars, codecVars, dsnVars, miner, quitCh, nonceCh, recvNonce >>

\* A worker's next nonce: the workers share the nonces by stride.
Stride(w) == [workers[w] EXCEPT !.st = "search", !.nonce = @ + MinerWorkers]

\* One turn of a worker's loop: it stops when the stop channel is closed,
\* holds an accepted nonce to send it, or moves on.
WorkerSearch(w) ==
    /\ workers[w].st = "search"
    /\ workers[w].nonce <= MaxNonce
    /\ workers' = [workers EXCEPT ![w] =
                      IF quitCh = "closed" THEN [@ EXCEPT !.st = "stopped"]
                      ELSE IF Accepted(miner.Data, workers[w].nonce) THEN [@ EXCEPT !.st = "found"]
                      ELSE Stride(w)]
    /\ UNCHANGED << svcVars, rpcVars, codecVars, dsnVars, miner, quitCh, nonceCh, gpc, recvNonce >>

\* nonce := <-nonceCh meets a worker's send: the allocator has the nonce and
\* the worker goes on.
Handoff(w) ==
    /\ workers' = [workers EXCEPT ![w] = Stride(w)]
    /\ recvNonce' = workers[w].nonce
    /\ gpc' = "closeQuit"

\* What a send on the closed nonce channel comes to: a panic; in a select
\* beside the closed stop channel either may be taken.
SendOnClosed(selects) == IF selects THEN {"panic", "stopped"} ELSE {"panic"}

\* A worker comes to its send statement: the allocator takes the nonce if it
\* is receiving; the send panics if the channel is closed; otherwise the
\* worker blocks, or leaves by the stop channel when it is closed and the send
\* stands in a select beside it.
WorkerSend(w) ==
    /\ workers[w].st = "found"
    /\ IF nonceCh = "closed"
       THEN /\ \E o \in SendOnClosed(miner.selects) : workers' = [workers EXCEPT ![w].st = o]
            /\ UNCHANGED << gpc, recvNonce >>
       ELSE IF gpc = "recv"
       THEN Handoff(w)
       ELSE /\ workers' = [workers EXCEPT ![w].st =
                              IF miner.selects /\ quitCh = "closed" THEN "stopped" ELSE "blocked"]
            /\ UNCHANGED << gpc, recvNonce >>
    /\ UNCHANGED << svcVars, rpcVars, codecVars, dsnVars, miner, quitCh, nonceCh >>

\* A worker blocked in its send is woken: by the close of the stop channel
\* when the send stands in a select, or else by the close of the nonce
\* channel, which makes the send panic.
WorkerWake(w) ==
    /\ workers[w].st = "blocked"
    /\ \/ /\ miner.selects
          /\ quitCh = "closed"
          /\ workers' = [workers EXCEPT ![w].st = "stopped"]
       \/ /\ ~miner.selects
          /\ nonceCh = "closed"
          /\ workers' = [workers EXCEPT ![w].st = "panic"]
    /\ UNCHANGED << svcVars, rpcVars, codecVars, dsnVars, miner, quitCh, nonceCh, gpc, recvNonce >>

\* close(quitCh)
CloseQuit ==
    /\ gpc = "closeQuit"
    /\ quitCh' = "closed"
    /\ gpc' = "closeNonce"
    /\ UNCHANGED << svcVars, rpcVars, codecVars, dsnVars, miner, workers, nonceCh, recvNonce >>

\* close(nonceCh)
CloseNonce ==
    /\ gpc = "closeNonce"
    /\ nonceCh' = "closed"
    /\ gpc' = "check"
    /\ UNCHANGED << svcVars, rpcVars, codecVars, dsnVars, miner, workers, quitCh, recvNonce >>

\* ----------------------------------------------------------------- state
Targets == 1..NumTargets
NilConn == << >>
IdleDial == [nodeID |-> 0, isAnonymous |-> FALSE, poolNil |-> FALSE, viaPool |-> FALSE,
             conn |-> NilConn, poolGets |-> 0, no |-> 0]
NoReturn == [conn |-> NilConn, err |-> Nil]
NoDatabaseID == HashSpace
Running == "running"
IdleReq == [op |-> "none"]
IdleAlloc == [lastTerm |-> 0, i |-> 0, curRange |-> 0, excludeNodes |-> {},
              accepted |-> {}, allocated |-> << >>, nodes |-> << >>,
              lookups |-> 0, rolesFilter |-> {}, probed |-> {}]
IdleFan == [phase |-> "none", op |-> "none", nodes |-> << >>, pending |-> {},
            errCh |-> << >>, firstErr |-> Nil, ret |-> Running, results |-> << >>, sent |-> {}]

CreateReq(requester, valid, node, memory) ==
    [op |-> "create", NodeID |-> requester, valid |-> valid,
     ResourceMeta |-> [Node |-> node, Memory |-> memory]]

DropReq(valid, id) == [op |-> "drop", valid |-> valid, DatabaseID |-> id]

GetReq(valid, id) == [op |-> "get", valid |-> valid, DatabaseID |-> id]

InitRPC ==
    /\ dpc = [c \in Callers |-> "idle"]
    /\ dcall = [c \in Callers |-> IdleDial]
    /\ dret = [c \in Callers |-> NoReturn]
    /\ conns = << >>
    /\ sessions = << >>
    /\ pool = {}

InitService ==
    /\ InitRPC
    /\ dbMap = << >>
    /\ nodeMap = [n \in Nodes |-> {}]
    /\ startNonce = [c \in Callers |-> 0]
    /\ peers = [c \in Callers |-> NilPeers]
    /\ fan = [c \in Callers |-> IdleFan]
    /\ err = [c \in Callers |-> Nil]
    /\ resp = [c \in Callers |-> NilInstance]
    /\ calls = [c \in Callers |-> 0]

\* The block producer at start-up: an empty service map, every handler idle,
\* miners reporting their free memory.
InitDBService ==
    /\ InitService
    /\ metrics = [n \in Nodes |-> MetricMapOf("mac", (n % MaxMem) + 1)]
    /\ includeBP = FALSE
    /\ pc = [c \in Callers |-> "idle"]
    /\ req = [c \in Callers |-> IdleReq]
    /\ dbID = [c \in Callers |-> NoDatabaseID]
    /\ alloc = [c \in Callers |-> IdleAlloc]

Init == InitDBService /\ InitCodecIdle /\ InitDSNIdle /\ InitMineIdle

\* One allocateNodes call on any ring, metric and request.
InitAlloc ==
    /\ InitService
    /\ InitCodecIdle
    /\ InitDSNIdle
    /\ InitMineIdle
    /\ \E platform \in Platforms, free \in [Nodes -> 1..NotCollected] :
          metrics = [n \in Nodes |-> MetricMapOf(platform, free[n])]
    /\ includeBP \in BOOLEAN
    /\ pc = [c \in Callers |-> IF c = 1 THEN "allocEnter" ELSE "idle"]
    /\ \E node \in 0..MaxNodeReq, memory \in 0..(MaxMem - 1) :
          req = [c \in Callers |-> IF c = 1 THEN CreateReq(1, TRUE, node, memory) ELSE IdleReq]
    /\ \E id \in {0, 1} : dbID = [c \in Callers |-> IF c = 1 THEN id ELSE NoDatabaseID]
    /\ alloc = [c \in Callers |-> IdleAlloc]

\* --------------------------------------------------------------- handlers
\* A handler returns: err and resp are what the caller gets.
Done(c, e) ==
    /\ pc' = [pc EXCEPT ![c] = "done"]
    /\ err' = [err EXCEPT ![c] = e]

\* CreateDatabase up to the signature check.
CreateDatabase(c) ==
    /\ pc[c] = "idle"
    /\ calls[c] < MaxCalls
    /\ \E requester \in Requesters, valid \in BOOLEAN, node \in {MaxNodeReq}, memory \in {0, MaxMem} :
          /\ req' = [req EXCEPT ![c] = CreateReq(requester, valid, node, memory)]
          /\ IF valid
             THEN /\ pc' = [pc EXCEPT ![c] = "genID"]
                  /\ err' = err
             ELSE Done(c, ErrSignVerification)
    /\ startNonce' = [startNonce EXCEPT ![c] = 0]
    /\ UNCHANGED << rpcVars, pureVars, metrics, includeBP, dbMap, nodeMap, dbID, alloc, peers, fan, resp, calls >>

\* One turn of generateDatabaseID's loop: mine a candidate, move the cursor
\* past it, return it unless the service map has it.
generateDatabaseID(c) ==
    /\ pc[c] = "genID"
    /\ \E nonce \in ComputeBlockNonce(req[c].NodeID, startNonce[c]) :
          LET id == HashOf(req[c].NodeID, nonce)
          IN /\ startNonce' = [startNonce EXCEPT ![c] = Inc(nonce)]
             /\ dbID' = [dbID EXCEPT ![c] = id]
             /\ IF ServiceMapGet(id) = NilInstance
                THEN /\ pc' = [pc EXCEPT ![c] = "allocEnter"]
                     /\ alloc' = [alloc EXCEPT ![c] = [IdleAlloc EXCEPT !.lastTerm = 0]]
                ELSE UNCHANGED << pc, alloc >>
    /\ UNCHANGED << rpcVars, pureVars, metrics, includeBP, dbMap, nodeMap, req, peers, fan, err, resp, calls >>

\* allocateNodes that puts no block producer in its exclude list.
excludeNodesNoBPs(include) == {}

\* The exclude list allocateNodes starts from: the block producers, unless
\* they are included for allocation.
excludeNodesInit(include) == IF ~include THEN GetBPs ELSE {}

\* The roles allocateNodes asks the ring for.
rolesFilterOf(include) == IF include THEN {"Miner", "Leader", "Follower"} ELSE {"Miner"}

\* allocateNodes before its loop.
allocateNodesEnter(c) ==
    /\ pc[c] = "allocEnter"
    /\ IF req[c].ResourceMeta.Node <= 0
       THEN /\ Done(c, ErrDatabaseAllocation)
            /\ alloc' = alloc
       ELSE /\ alloc' = [alloc EXCEPT ![c].curRange = req[c].ResourceMeta.Node,
                                      ![c].excludeNodes = excludeNodesInit(includeBP),
                                      ![c].i = 0]
            /\ pc' = [pc EXCEPT ![c] = "allocRound"]
            /\ err' = err
    /\ UNCHANGED << rpcVars, pureVars, metrics, includeBP, dbMap, nodeMap, req, dbID, startNonce, peers, fan, resp, calls >>

\* allocateNodes handing lastTerm itself to buildPeers.
NextTermSame(lastTerm) == lastTerm

\* The term allocateNodes hands to buildPeers.
NextTerm(lastTerm) == lastTerm + 1

\* The nodes of the round whose free memory is read and enough.
AcceptedOf(resourceMeta, nodeIDs) ==
    LET m == GetMetrics(nodeIDs)
    IN { [NodeID |-> n, MemoryMetric |-> getMetric(m[n], MetricKeyFreeMemory).value] :
           n \in { x \in DOMAIN m :
                     /\ getMetric(m[x], MetricKeyFreeMemory).err = Nil
                     /\ CanAllocate(resourceMeta.Memory, getMetric(m[x], MetricKeyFreeMemory).value) } }

\* The round's candidates taken from every node the ring returned.
CandidatesAll(nodes, excludeNodes) == nodes

\* The round's candidates: the nodes the ring returned that are not excluded.
Candidates(nodes, excludeNodes) == FilterSeq(nodes, Nodes \ excludeNodes)

\* err after the loop over the metrics: what getMetric returned for the node
\* the range over the map came to last.
MetricErrs(nodeIDs) ==
    { getMetric(GetMetrics(nodeIDs)[n], MetricKeyFreeMemory).err : n \in SeqToSet(nodeIDs) }

\* One round of allocateNodes' loop.
allocateNodesRound(c) ==
    /\ pc[c] = "allocRound"
    /\ alloc[c].i # DefaultAllocationRounds
    /\ LET a == alloc[c]
           resourceMeta == req[c].ResourceMeta
           rolesFilter == rolesFilterOf(includeBP)
           nodes == GetNeighborsEx(dbID[c], a.curRange, rolesFilter)
           nodeIDs == Candidates(nodes, a.excludeNodes)
           accepted == AcceptedOf(resourceMeta, nodeIDs)
           excluded == a.excludeNodes \cup (SeqToSet(nodeIDs) \ { x.NodeID : x \in accepted })
       IN IF Len(nodeIDs) < resourceMeta.Node
          THEN /\ alloc' = [alloc EXCEPT ![c].i = a.i + 1, ![c].nodes = nodes,
                                         ![c].accepted = {}, ![c].allocated = << >>,
                                         ![c].lookups = a.lookups + 1,
                                         ![c].rolesFilter = rolesFilter,
                                         ![c].probed = {}]
               /\ err' = [err EXCEPT ![c] = Nil]
               /\ UNCHANGED << pc, peers >>
          ELSE IF Cardinality(accepted) >= resourceMeta.Node
               THEN \E sorted \in SortedByMetric(accepted) :
                       LET allocated == Take(sorted, resourceMeta.Node)
                           nodeAllocated == [k \in 1..Len(allocated) |-> allocated[k].NodeID]
                       IN /\ alloc' = [alloc EXCEPT ![c].nodes = nodes, ![c].accepted = accepted,
                                                      ![c].allocated = allocated,
                                                      ![c].excludeNodes = excluded,
                                                      ![c].lookups = a.lookups + 1,
                                                      ![c].rolesFilter = rolesFilter,
                                                      ![c].probed = SeqToSet(nodeIDs)]
                          /\ err' = [err EXCEPT ![c] = Nil]
                          /\ peers' = [peers EXCEPT ![c] = buildPeers(NextTerm(a.lastTerm), nodes, nodeAllocated)]
                          /\ pc' = [pc EXCEPT ![c] = "deploy"]
               ELSE /\ alloc' = [alloc EXCEPT ![c].i = a.i + 1, ![c].nodes = nodes,
                                              ![c].accepted = accepted, ![c].allocated = << >>,
                                              ![c].excludeNodes = excluded,
                                              ![c].curRange = a.curRange + resourceMeta.Node,
                                              ![c].lookups = a.lookups + 1,
                                              ![c].rolesFilter = rolesFilter,
                                              ![c].probed = SeqToSet(nodeIDs)]
                    /\ \E e \in MetricErrs(nodeIDs) : err' = [err EXCEPT ![c] = e]
                    /\ UNCHANGED << pc, peers >>
    /\ UNCHANGED << rpcVars, pureVars, metrics, includeBP, dbMap, nodeMap, req, dbID, startNonce, fan, resp, calls >>

\* allocateNodes that returns no error after its last round.
allocateNodesExhaustedNil(c) ==
    /\ pc[c] = "allocRound"
    /\ alloc[c].i = DefaultAllocationRounds
    /\ Done(c, Nil)
    /\ UNCHANGED << rpcVars, pureVars, metrics, includeBP, dbMap, nodeMap, req, dbID, startNonce, alloc, peers, fan, resp, calls >>

\* allocateNodes after its last round.
allocateNodesExhausted(c) ==
    /\ pc[c] = "allocRound"
    /\ alloc[c].i = DefaultAllocationRounds
    /\ Done(c, ErrDatabaseAllocation)
    /\ UNCHANGED << rpcVars, pureVars, metrics, includeBP, dbMap, nodeMap, req, dbID, startNonce, alloc, peers, fan, resp, calls >>

\* ---------------------------------------------------------- deploy fan-out
\* batchSendSingleSvcReq up to wg.Wait: one goroutine per node, an error
\* channel with room for every answer.
Spawn(phase, op, nodes, firstErr, old) ==
    [phase |-> phase, op |-> op, nodes |-> nodes, pending |-> SeqToSet(nodes),
     errCh |-> << >>, firstErr |-> firstErr, ret |-> Running,
     results |-> old.results, sent |-> old.sent]

\* CreateDatabase from the genesis block to the start of the deploy fan-out.
CreateDatabaseDeploy(c) ==
    /\ pc[c] = "deploy"
    /\ fan' = [fan EXCEPT ![c] = Spawn("req", "CreateDB", peersToNodes(peers[c]), Nil, IdleFan)]
    /\ pc' = [pc EXCEPT ![c] = "wait"]
    /\ UNCHANGED << rpcVars, pureVars, metrics, includeBP, dbMap, nodeMap, req, dbID, startNonce, alloc, peers, err, resp, calls >>

\* DropDatabase up to the start of the drop fan-out.
DropDatabase(c) ==
    /\ pc[c] = "idle"
    /\ calls[c] < MaxCalls
    /\ \E valid \in BOOLEAN, id \in DatabaseIDs :
          /\ req' = [req EXCEPT ![c] = DropReq(valid, id)]
          /\ dbID' = [dbID EXCEPT ![c] = id]
          /\ IF ~valid
             THEN /\ Done(c, ErrSignVerification)
                  /\ fan' = fan
             ELSE IF ServiceMapGet(id) = NilInstance
                  THEN /\ Done(c, ErrNoSuchDatabase)
                       /\ fan' = fan
                  ELSE /\ fan' = [fan EXCEPT ![c] =
                                    Spawn("req", "DropDB", peersToNodes(ServiceMapGet(id).Peers), Nil, IdleFan)]
                       /\ pc' = [pc EXCEPT ![c] = "wait"]
                       /\ err' = err
    /\ UNCHANGED << rpcVars, pureVars, metrics, includeBP, dbMap, nodeMap, startNonce, alloc, peers, resp, calls >>

\* One goroutine of batchSendSingleSvcReq: CallNode(node, "DBS.Deploy", req)
\* returns nil or an error, which goes to the error channel.
CallNode(c, node) ==
    /\ pc[c] = "wait"
    /\ node \in fan[c].pending
    /\ \E e \in {Nil, ErrCallNode} :
          fan' = [fan EXCEPT ![c].pending = @ \ {node},
                             ![c].errCh = Append(@, e),
                             ![c].sent = @ \cup {<< node, fan[c].op >>},
                             ![c].results = IF fan[c].phase = "req"
                                            THEN [n \in DOMAIN @ \cup {node} |-> IF n = node THEN e ELSE @[n]]
                                            ELSE @]
    /\ UNCHANGED << rpcVars, pureVars, metrics, includeBP, dbMap, nodeMap, pc, req, dbID, startNonce, alloc, peers, err, resp, calls >>

\* What batchSendSingleSvcReq returns once every goroutine is done and the
\* channel is closed: one receive from the channel.
batchSendSingleSvcReq(errCh) == IF errCh = << >> THEN Nil ELSE Head(errCh)

\* The request batchSendSvcReq sends after a failed fan-out.
RollbackOp(c) == IF req[c].op = "create" THEN "DropDB" ELSE "nil"

\* batchSendSvcReq: the first fan-out returned nil.
batchSendSvcReqOK(c) ==
    /\ pc[c] = "wait"
    /\ fan[c].phase = "req"
    /\ fan[c].pending = {}
    /\ batchSendSingleSvcReq(fan[c].errCh) = Nil
    /\ fan' = [fan EXCEPT ![c].ret = Nil]
    /\ pc' = [pc EXCEPT ![c] = IF req[c].op = "create" THEN "set" ELSE "delete"]
    /\ UNCHANGED << rpcVars, pureVars, metrics, includeBP, dbMap, nodeMap, req, dbID, startNonce, alloc, peers, err, resp, calls >>

\* batchSendSvcReq that starts the rollback at the first error received.
batchSendSvcReqRollbackNoWait(c) ==
    /\ pc[c] = "wait"
    /\ fan[c].phase = "req"
    /\ batchSendSingleSvcReq(fan[c].errCh) # Nil
    /\ fan' = [fan EXCEPT ![c] = Spawn("rollback", RollbackOp(c), fan[c].nodes,
                                       batchSendSingleSvcReq(fan[c].errCh), fan[c])]
    /\ UNCHANGED << rpcVars, pureVars, metrics, includeBP, dbMap, nodeMap, pc, req, dbID, startNonce, alloc, peers, err, resp, calls >>

\* batchSendSvcReq: the first fan-out returned an error, the rollback request
\* is fanned out to the same nodes.
batchSendSvcReqRollback(c) ==
    /\ pc[c] = "wait"
    /\ fan[c].phase = "req"
    /\ fan[c].pending = {}
    /\ batchSendSingleSvcReq(fan[c].errCh) # Nil
    /\ fan' = [fan EXCEPT ![c] = Spawn("rollback", RollbackOp(c), fan[c].nodes,
                                       batchSendSingleSvcReq(fan[c].errCh), fan[c])]
    /\ UNCHANGED << rpcVars, pureVars, metrics, includeBP, dbMap, nodeMap, pc, req, dbID, startNonce, alloc, peers, err, resp, calls >>

\* batchSendSvcReq returns the first fan-out's error after the rollback
\* fan-out; CreateDatabase and DropDatabase return it.
batchSendSvcReqFailed(c) ==
    /\ pc[c] = "wait"
    /\ fan[c].phase = "rollback"
    /\ fan[c].pending = {}
    /\ fan' = [fan EXCEPT ![c].ret = fan[c].firstErr]
    /\ Done(c, fan[c].firstErr)
    /\ UNCHANGED << rpcVars, pureVars, metrics, includeBP, dbMap, nodeMap, req, dbID, startNonce, alloc, peers, resp, calls >>

InstanceMeta(c) ==
    [DatabaseID |-> dbID[c], Peers |-> peers[c], ResourceMeta |-> req[c].ResourceMeta,
     GenesisBlock |-> generateGenesisBlock(dbID[c])]

\* CreateDatabase that fills the response before it saves to meta.
CreateDatabaseSaveRespFirst(c) ==
    /\ pc[c] = "set"
    /\ resp' = [resp EXCEPT ![c] = InstanceMeta(c)]
    /\ \E committed \in BOOLEAN :
          IF committed
          THEN /\ ServiceMapSet(InstanceMeta(c))
               /\ Done(c, Nil)
          ELSE /\ Done(c, ErrStoreCommit)
               /\ UNCHANGED << dbMap, nodeMap >>
    /\ UNCHANGED << rpcVars, pureVars, metrics, includeBP, req, dbID, startNonce, alloc, peers, fan, calls >>

\* CreateDatabase that has the rollback request sent when the save fails.
CreateDatabaseSaveCompensate(c) ==
    /\ pc[c] = "set"
    /\ \E committed \in BOOLEAN :
          IF committed
          THEN /\ ServiceMapSet(InstanceMeta(c))
               /\ resp' = [resp EXCEPT ![c] = InstanceMeta(c)]
               /\ Done(c, Nil)
               /\ fan' = fan
          ELSE /\ Done(c, ErrStoreCommit)
               /\ fan' = [fan EXCEPT ![c].sent = @ \cup { << n, "DropDB" >> : n \in SeqToSet(fan[c].nodes) }]
               /\ UNCHANGED << dbMap, nodeMap, resp >>
    /\ UNCHANGED << rpcVars, pureVars, metrics, includeBP, req, dbID, startNonce, alloc, peers, calls >>

\* CreateDatabase after the fan-out: save to meta, fill and sign the response.
CreateDatabaseSave(c) ==
    /\ pc[c] = "set"
    /\ \E committed \in BOOLEAN :
          IF committed
          THEN /\ ServiceMapSet(InstanceMeta(c))
               /\ resp' = [resp EXCEPT ![c] = InstanceMeta(c)]
               /\ Done(c, Nil)
          ELSE /\ Done(c, ErrStoreCommit)
               /\ UNCHANGED << dbMap, nodeMap, resp >>
    /\ UNCHANGED << rpcVars, pureVars, metrics, includeBP, req, dbID, startNonce, alloc, peers, fan, calls >>

\* DropDatabase that returns without removing the instance from meta.
DropDatabaseKeep(c) ==
    /\ pc[c] = "delete"
    /\ Done(c, Nil)
    /\ UNCHANGED << rpcVars, pureVars, metrics, includeBP, dbMap, nodeMap, req, dbID, startNonce, alloc, peers, fan, resp, calls >>

\* DropDatabase after the fan-out: remove from meta.
DropDatabaseRemove(c) ==
    /\ pc[c] = "delete"
    /\ \E committed \in BOOLEAN :
          IF committed
          THEN /\ ServiceMapDelete(req[c].DatabaseID)
               /\ Done(c, Nil)
          ELSE /\ Done(c, ErrStoreCommit)
               /\ UNCHANGED << dbMap, nodeMap >>
    /\ UNCHANGED << rpcVars, pureVars, metrics, includeBP, req, dbID, startNonce, alloc, peers, fan, resp, calls >>

\* GetDatabase that fetches from meta whatever the signature.
GetDatabaseUnverified(c) ==
    /\ pc[c] = "idle"
    /\ calls[c] < MaxCalls
    /\ \E valid \in BOOLEAN, id \in DatabaseIDs :
          /\ req' = [req EXCEPT ![c] = GetReq(valid, id)]
          /\ dbID' = [dbID EXCEPT ![c] = id]
          /\ IF ServiceMapGet(id) = NilInstance
             THEN /\ Done(c, ErrNoSuchDatabase)
                  /\ resp' = resp
             ELSE /\ resp' = [resp EXCEPT ![c] = ServiceMapGet(id)]
                  /\ Done(c, Nil)
    /\ UNCHANGED << rpcVars, pureVars, metrics, includeBP, dbMap, nodeMap, startNonce, alloc, peers, fan, calls >>

\* GetDatabase: verify, fetch from meta, fill and sign the response.
GetDatabase(c) ==
    /\ pc[c] = "idle"
    /\ calls[c] < MaxCalls
    /\ \E valid \in BOOLEAN, id \in DatabaseIDs :
          /\ req' = [req EXCEPT ![c] = GetReq(valid, id)]
          /\ dbID' = [dbID EXCEPT ![c] = id]
          /\ IF ~valid
             THEN /\ Done(c, ErrSignVerification)
                  /\ resp' = resp
             ELSE IF ServiceMapGet(id) = NilInstance
                  THEN /\ Done(c, ErrNoSuchDatabase)
                       /\ resp' = resp
                  ELSE /\ resp' = [resp EXCEPT ![c] = ServiceMapGet(id)]
                       /\ Done(c, Nil)
    /\ UNCHANGED << rpcVars, pureVars, metrics, includeBP, dbMap, nodeMap, startNonce, alloc, peers, fan, calls >>

\* The RPC is answered; the handler may be entered again.
Return(c) ==
    /\ pc[c] = "done"
    /\ pc' = [pc EXCEPT ![c] = "idle"]
    /\ req' = [req EXCEPT ![c] = IdleReq]
    /\ dbID' = [dbID EXCEPT ![c] = NoDatabaseID]
    /\ startNonce' = [startNonce EXCEPT ![c] = 0]
    /\ alloc' = [alloc EXCEPT ![c] = IdleAlloc]
    /\ peers' = [peers EXCEPT ![c] = NilPeers]
    /\ fan' = [fan EXCEPT ![c] = IdleFan]
    /\ err' = [err EXCEPT ![c] = Nil]
    /\ resp' = [resp EXCEPT ![c] = NilInstance]
    /\ calls' = [calls EXCEPT ![c] = @ + 1]
    /\ UNCHANGED << rpcVars, pureVars, metrics, includeBP, dbMap, nodeMap >>

\* ------------------------------------------------------------ rpc client
ErrResolve == "ErrResolve"
ErrNetDial == "ErrNetDial"
ErrLocalNodeID == "ErrLocalNodeID"
ErrLocalNonce == "ErrLocalNonce"
ErrWrite == "ErrWrite"
ErrYamux == "ErrYamux"
ErrOpen == "ErrOpen"

\* The bytes of the identity prelude, each named by where it comes from.
LocalNodeIDBytes == [i \in 1..IDBytes |-> "local node id"]
LocalNonceBytes == [i \in 1..NonceBytes |-> "local nonce"]
AnonymousRawNodeID == [i \in 1..IDBytes |-> "anonymous node id"]
ZeroNonceBytes == [i \in 1..NonceBytes |-> "zero"]

\* What a connection's log holds after the prelude bytes: the creation of the
\* encrypted connection, then the bytes sent enciphered.
NewConn == "etls.NewConn"
Enciphered == "enciphered"

\* DialToNode that takes the pool whenever there is one.
UsesPoolAnonymous(poolNil, isAnonymous) == ~poolNil

\* DialToNode goes to the pool unless there is none or the dial is anonymous.
UsesPool(poolNil, isAnonymous) == ~(poolNil \/ isAnonymous)

\* The connection (and the session over it) a DialToNode call makes is known
\* by the call: the caller and the number of its call.
CallID(c) == << c, dcall[c].no >>

MapSet(f, k, v) == [ x \in DOMAIN f \cup {k} |-> IF x = k THEN v ELSE f[x] ]

MapDrop(f, ks) == [ x \in DOMAIN f \ ks |-> f[x] ]

\* DialToNode up to its branch.
DialToNode(c) ==
    /\ dpc[c] = "idle"
    /\ dcall[c].no < MaxDialCalls
    /\ \E nodeID \in Targets, poolNil \in BOOLEAN, isAnonymous \in BOOLEAN :
          /\ dcall' = [dcall EXCEPT ![c].nodeID = nodeID, ![c].poolNil = poolNil,
                                    ![c].isAnonymous = isAnonymous,
                                    ![c].poolGets = IF UsesPool(poolNil, isAnonymous) THEN 1 ELSE 0]
          /\ dpc' = [dpc EXCEPT ![c] = IF UsesPool(poolNil, isAnonymous) THEN "poolGet" ELSE "dialEx"]
    /\ UNCHANGED << svcVars, pureVars, dret, conns, sessions, pool >>

\* DialToNode, or the pool's Get, has its result.
DialDone(c, conn, e) ==
    /\ dret' = [dret EXCEPT ![c] = [conn |-> conn, err |-> e]]
    /\ dpc' = [dpc EXCEPT ![c] = "done"]

\* dialToNodeEx up to its call of dial: the shared secret and the address of
\* the node are found, or not.
dialToNodeEx(c) ==
    /\ dpc[c] = "dialEx"
    /\ \E e \in {Nil, ErrResolve} :
          IF e # Nil
          THEN DialDone(c, NilConn, e)
          ELSE /\ dpc' = [dpc EXCEPT ![c] = "dial"]
               /\ UNCHANGED dret
    /\ UNCHANGED << svcVars, pureVars, dcall, conns, sessions, pool >>

\* dial that sends the local identity on every connection.
writeBufLocal(isAnonymous) == LocalNodeIDBytes \o LocalNonceBytes

\* The buffer dial writes first.
writeBuf(isAnonymous) ==
    IF isAnonymous THEN AnonymousRawNodeID \o ZeroNonceBytes
    ELSE LocalNodeIDBytes \o LocalNonceBytes

\* conn.Write as io.Writer has it: n bytes are written, and the error is
\* non-nil whenever n is less than the buffer's length.
ConnWrite(buf) ==
    { w \in [wrote : 0..Len(buf), err : {Nil, ErrWrite}] : w.wrote < Len(buf) => w.err # Nil }

\* What can happen inside dial once connected: the local node ID or the local
\* nonce is not to be had (never asked for when anonymous), or the write ends.
DialOutcomes(isAnonymous) ==
    { o \in [idErr : {Nil, ErrLocalNodeID}, nonceErr : {Nil, ErrLocalNonce},
             write : ConnWrite(writeBuf(isAnonymous))] :
        /\ isAnonymous => (o.idErr = Nil /\ o.nonceErr = Nil)
        /\ o.idErr # Nil => o.nonceErr = Nil
        /\ (o.idErr # Nil \/ o.nonceErr # Nil) => o.write = [wrote |-> 0, err |-> ErrWrite] }

\* dial returned before it wrote.
NoWrite == [wrote |-> -1, err |-> Nil]

\* dial that wraps the connection whatever the write returned.
dialNoWriteCheck(isAnonymous, o, id) ==
    [log  |-> SubSeq(writeBuf(isAnonymous), 1, o.write.wrote) \o << NewConn >>,
     read |-> IF isAnonymous THEN {} ELSE {"NodeID", "Nonce"},
     write |-> o.write,
     closed |-> FALSE,
     c    |-> id,
     err  |-> Nil]

\* dial after net.Dial: what went over the connection, what was read of the
\* local identity, whether conn.Close was called, and the (c, err) returned.
\* No path of dial calls Close.
dialConnected(isAnonymous, o, id) ==
    IF ~isAnonymous /\ o.idErr # Nil
    THEN [log |-> << >>, read |-> {"NodeID"}, write |-> NoWrite, closed |-> FALSE,
          c |-> NilConn, err |-> o.idErr]
    ELSE IF ~isAnonymous /\ o.nonceErr # Nil
    THEN [log |-> << >>, read |-> {"NodeID", "Nonce"}, write |-> NoWrite, closed |-> FALSE,
          c |-> NilConn, err |-> o.nonceErr]
    ELSE LET buf == writeBuf(isAnonymous)
             sent == SubSeq(buf, 1, o.write.wrote)
             read == IF isAnonymous THEN {} ELSE {"NodeID", "Nonce"}
         IN IF o.write.err # Nil \/ o.write.wrote # Len(buf)
            THEN [log |-> sent, read |-> read, write |-> o.write, closed |-> FALSE,
                  c |-> NilConn, err |-> o.write.err]
            ELSE [log |-> sent \o << NewConn >>, read |-> read, write |-> o.write, closed |-> FALSE,
                  c |-> id, err |-> Nil]

\* dial, and dialToNodeEx's return of what dial returned.
dial(c) ==
    /\ dpc[c] = "dial"
    /\ \E netErr \in {Nil, ErrNetDial} :
          IF netErr # Nil
          THEN /\ DialDone(c, NilConn, netErr)
               /\ UNCHANGED << dcall, conns >>
          ELSE \E o \in DialOutcomes(dcall[c].isAnonymous) :
                  LET id == CallID(c)
                      r == dialConnected(dcall[c].isAnonymous, o, id)
                  IN /\ conns' = MapSet(conns, id, [target |-> dcall[c].nodeID,
                                                    isAnonymous |-> dcall[c].isAnonymous,
                                                    pooled |-> dcall[c].viaPool,
                                                    log |-> r.log, read |-> r.read,
                                                    write |-> r.write, closed |-> r.closed])
                     /\ IF r.err # Nil
                        THEN /\ DialDone(c, NilConn, r.err)
                             /\ dcall' = dcall
                        ELSE /\ dcall' = [dcall EXCEPT ![c].conn = r.c]
                             /\ dpc' = [dpc EXCEPT ![c] = IF dcall[c].viaPool THEN "poolInstall" ELSE "mux"]
                             /\ UNCHANGED dret
    /\ UNCHANGED << svcVars, pureVars, sessions, pool >>

\* A yamux session over a connection.
Session(conn, node, pooled) ==
    [conn |-> conn, node |-> node, pooled |-> pooled, dead |-> FALSE]

\* A stream is opened on session s: its first frame goes out enciphered.
OpenStream(s, ss) == [conns EXCEPT ![ss[s].conn].log = Append(@, Enciphered)]

\* DialToNode without the pool, after the dial: a yamux session of its own and
\* one stream on it.
DialToNodeOpen(c) ==
    /\ dpc[c] = "mux"
    /\ \E e \in {Nil, ErrYamux, ErrOpen} :
          LET s == CallID(c)
              ss == MapSet(sessions, s, Session(dcall[c].conn, dcall[c].nodeID, FALSE))
          IN /\ sessions' = IF e = ErrYamux THEN sessions ELSE ss
             /\ conns' = IF e = Nil THEN OpenStream(s, ss) ELSE conns
             /\ DialDone(c, IF e = Nil THEN s ELSE NilConn, e)
    /\ UNCHANGED << svcVars, pureVars, dcall, pool >>

\* ---------------------------------------------------------- session pool
\* The pool's live session for a node.
LiveSession(n) == { s \in pool : sessions[s].node = n /\ ~sessions[s].dead }

\* SessionPool.Get: a stream of the node's live session; or, there being
\* none, this Get dials the node. The pool's mutex is not held over the dial
\* and nothing records a dial in progress: a Get that finds no live session
\* dials whether or not another Get is dialing the node.
PoolGet(c) ==
    /\ dpc[c] = "poolGet"
    /\ LET n == dcall[c].nodeID
       IN IF LiveSession(n) # {}
          THEN /\ \E s \in LiveSession(n), e \in {Nil, ErrOpen} :
                     /\ conns' = IF e = Nil THEN OpenStream(s, sessions) ELSE conns
                     /\ DialDone(c, IF e = Nil THEN s ELSE NilConn, e)
               /\ dcall' = dcall
          ELSE /\ dcall' = [dcall EXCEPT ![c].viaPool = TRUE]
               /\ dpc' = [dpc EXCEPT ![c] = "dialEx"]
               /\ UNCHANGED << dret, conns >>
    /\ UNCHANGED << svcVars, pureVars, sessions, pool >>

\* SessionPool.Get after its dial: the session is negotiated and installed as
\* the node's one pool entry, in place of what the pool held for the node, and
\* a stream is opened.
PoolInstall(c) ==
    /\ dpc[c] = "poolInstall"
    /\ \E e \in {Nil, ErrYamux, ErrOpen} :
          LET n == dcall[c].nodeID
              s == CallID(c)
              replaced == { x \in pool : sessions[x].node = n }
              ss == MapSet(MapDrop(sessions, replaced), s, Session(dcall[c].conn, n, TRUE))
              cs == MapDrop(conns, { sessions[x].conn : x \in replaced })
          IN /\ sessions' = IF e = ErrYamux THEN sessions ELSE ss
             /\ pool' = IF e = ErrYamux THEN pool ELSE (pool \ replaced) \cup {s}
             /\ conns' = IF e = ErrYamux THEN conns
                         ELSE IF e = Nil THEN [cs EXCEPT ![ss[s].conn].log = Append(@, Enciphered)]
                         ELSE cs
             /\ DialDone(c, IF e = Nil THEN s ELSE NilConn, e)
    /\ UNCHANGED << svcVars, pureVars, dcall >>

\* SessionPool.Put(sessionError): a caller saw an I/O error on the node's
\* session, which is marked dead.
PoolPut(n) ==
    /\ \E s \in LiveSession(n) : sessions' = [sessions EXCEPT ![s].dead = TRUE]
    /\ UNCHANGED << svcVars, pureVars, dpc, dcall, dret, conns, pool >>

\* DialToNode has returned; the caller may dial again. What it made outside
\* the pool goes with the caller.
DialReturn(c) ==
    /\ dpc[c] = "done"
    /\ dpc' = [dpc EXCEPT ![c] = "idle"]
    /\ dcall' = [dcall EXCEPT ![c] = [IdleDial EXCEPT !.no = dcall[c].no + 1]]
    /\ dret' = [dret EXCEPT ![c] = NoReturn]
    /\ conns' = IF CallID(c) \in pool THEN conns ELSE MapDrop(conns, {CallID(c)})
    /\ sessions' = IF CallID(c) \in pool THEN sessions ELSE MapDrop(sessions, {CallID(c)})
    /\ UNCHANGED << svcVars, pureVars, pool >>

\* ---------------------------------------------------------- specifications
Next ==
    \E c \in Callers :
        \/ CreateDatabase(c)
        \/ generateDatabaseID(c)
        \/ allocateNodesEnter(c)
        \/ allocateNodesRound(c)
        \/ allocateNodesExhausted(c)
        \/ CreateDatabaseDeploy(c)
        \/ DropDatabase(c)
        \/ \E node \in Nodes : CallNode(c, node)
        \/ batchSendSvcReqOK(c)
        \/ batchSendSvcReqRollback(c)
        \/ batchSendSvcReqFailed(c)
        \/ CreateDatabaseSave(c)
        \/ DropDatabaseRemove(c)
        \/ GetDatabase(c)
        \/ Return(c)

Spec == Init /\ [][Next]_vars

NextAlloc ==
    \E c \in Callers :
        \/ allocateNodesEnter(c)
        \/ allocateNodesRound(c)
        \/ allocateNodesExhausted(c)

SpecAlloc == InitAlloc /\ [][NextAlloc]_vars

NextDial ==
    \/ \E c \in Callers :
          \/ DialToNode(c)
          \/ dialToNodeEx(c)
          \/ dial(c)
          \/ DialToNodeOpen(c)
          \/ PoolGet(c)
          \/ PoolInstall(c)
          \/ DialReturn(c)
    \/ \E n \in Targets : PoolPut(n)

\* Callers dialing nodes through DialToNode, with and without the pool.
SpecDial == Init /\ [][NextDial]_vars

\* A wrapper that holds a transaction or none gets a value decoded into it.
InitCodec ==
    /\ InitDBService
    /\ InitDSNIdle
    /\ InitMineIdle
    /\ txTypeMapping = [t \in TxTags |-> NoType]
    /\ encoded = NilWrapper
    /\ wire = NoWire
    /\ wrapper \in { Wrapper(tx) : tx \in {NilTx, Tx("TxB", MaxField)} }
    /\ before = NilTx
    /\ decErr = Nil
    /\ decoded = FALSE

NextCodec ==
    \/ \E t \in TxTags, tx \in {NilTx, Tx(TxWrapperType, 0)} \cup Transactions : RegisterTransaction(t, tx)
    \/ Encode
    \/ Receive
    \/ Decode

SpecCodec == InitCodec /\ [][NextCodec]_vars

\* A Config of any DatabaseID, formatted and parsed.
InitDSN ==
    /\ InitDBService
    /\ InitCodecIdle
    /\ InitMineIdle
    /\ cfg \in { Config(id) : id \in IDStrings }
    /\ dsn = NoDSN
    /\ parsed = NoParse

NextDSN == Format \/ Supply \/ Parse

SpecDSN == InitDSN /\ [][NextDSN]_vars

\* One turn of generateDatabaseID for any requester and start nonce, with
\* workers that send bare or in a select beside the stop channel.
InitMine ==
    /\ InitDBService
    /\ InitCodecIdle
    /\ InitDSNIdle
    /\ miner \in [Data : Requesters, startNonce : 0..MaxStartNonce, selects : BOOLEAN]
    /\ workers = [w \in Workers |-> IdleWorker]
    /\ quitCh = "open"
    /\ nonceCh = "open"
    /\ gpc = "start"
    /\ recvNonce = NoNonce

NextMine ==
    \/ StartMiner
    \/ \E w \in Workers :
          \/ WorkerSearch(w)
          \/ WorkerSend(w)
          \/ WorkerWake(w)
    \/ CloseQuit
    \/ CloseNonce

SpecMine == InitMine /\ [][NextMine]_vars

\* ------------------------------------------------------------ properties
Chosen(c) == SeqToSet(fan[c].nodes)

DeployFailed(c) == \E n \in DOMAIN fan[c].results : fan[c].results[n] # Nil

DeployAllNil(c) ==
    /\ DOMAIN fan[c].results = Chosen(c)
    /\ \A n \in Chosen(c) : fan[c].results[n] = Nil

\* C1: once batchSendSvcReq has returned from a create fan-out in which some
\* target's DBS.Deploy(CreateDB) call returned an error, every target has been
\* sent the DropDB rollback and the value returned to CreateDatabase is an error.
C1_RollbackOnAnyDeployError ==
    \A c \in Callers :
        (req[c].op = "create" /\ fan[c].ret # Running /\ DeployFailed(c))
            => /\ \A n \in Chosen(c) : << n, "DropDB" >> \in fan[c].sent
               /\ fan[c].ret # Nil

\* C2: CreateDatabase is at ServiceMap.Set, or has answered with the instance
\* as created, only if every chosen miner returned nil from its CreateDB call.
C2_SetOnlyAfterAllDeployed ==
    \A c \in Callers :
        (req[c].op = "create" /\ (pc[c] = "set" \/ resp[c] # NilInstance)) => DeployAllNil(c)

\* allocateNodes has just returned peers to the caller.
Allocated(c) == pc[c] = "deploy"

\* C3: the Peers of a successful allocateNodes has exactly ResourceMeta.Node
\* servers, none nil, with pairwise distinct node IDs, each accepted and none
\* excluded in the successful round.
C3_PeersAreNAcceptedNodes ==
    \A c \in Callers :
        Allocated(c) =>
            LET servers == peers[c].Servers
            IN /\ Len(servers) = req[c].ResourceMeta.Node
               /\ \A i \in 1..Len(servers) :
                     /\ servers[i] # NilServer
                     /\ servers[i].ID \in { x.NodeID : x \in alloc[c].accepted }
                     /\ servers[i].ID \notin alloc[c].excludeNodes
               /\ \A i, j \in 1..Len(servers) : i # j => servers[i].ID # servers[j].ID

C3_Witness ==
    /\ Allocated(1)
    /\ req[1].ResourceMeta.Node = 2
    /\ Cardinality(alloc[1].accepted) > 2
    /\ alloc[1].excludeNodes # {}

\* C4: every Peers built has exactly one server of role Leader, it is the
\* first of Servers and the one Peers.Leader refers to, and every other server
\* is a Follower.
C4_OneLeaderFirst ==
    \A c \in Callers :
        Allocated(c) =>
            LET servers == peers[c].Servers
            IN /\ Cardinality({ i \in 1..Len(servers) : servers[i].Role = "Leader" }) = 1
               /\ servers[1].Role = "Leader"
               /\ peers[c].Leader = 1
               /\ \A i \in 2..Len(servers) : servers[i].Role = "Follower"

C4_Witness == Allocated(1) /\ Len(peers[1].Servers) = 2

\* C5: the Peers allocateNodes returns has Term = lastTerm + 1, which is 1 for
\* a database created by CreateDatabase, and the Term registered for a
\* DatabaseID never decreases.
C5_TermIsLastTermPlusOne ==
    /\ [](\A c \in Callers :
             peers[c] # NilPeers =>
                 /\ peers[c].Term = alloc[c].lastTerm + 1
                 /\ req[c].op = "create" => peers[c].Term = 1)
    /\ [][\A id \in DOMAIN dbMap \cap DOMAIN dbMap' :
             dbMap'[id].Peers.Term >= dbMap[id].Peers.Term]_vars

C5_Witness ==
    \E c \in Callers :
        /\ pc[c] = "done" /\ resp[c] # NilInstance
        /\ dbID[c] \in DOMAIN dbMap /\ dbMap[dbID[c]].Peers.Term = 1

\* The free memory allocateNodes read for a chosen node.
MemoryOf(c, n) == (CHOOSE x \in alloc[c].accepted : x.NodeID = n).MemoryMetric

\* C6: the Leader of the Peers returned by allocateNodes has the greatest free
\* memory among the chosen nodes.
C6_LeaderHasMostFreeMemory ==
    \A c \in Callers :
        Allocated(c) =>
            \A i \in 1..Len(peers[c].Servers) :
                MemoryOf(c, peers[c].Servers[1].ID) >= MemoryOf(c, peers[c].Servers[i].ID)

\* The nodes allocateNodes excluded before its first round.
PreExcluded == IF ~includeBP THEN GetBPs ELSE {}

FreeMemory(n) == getMetric(metrics[n], MetricKeyFreeMemory)

\* C7: a candidate with a free-memory metric is excluded exactly when its
\* value is strictly less than ResourceMeta.Memory: one whose free memory
\* equals ResourceMeta.Memory is accepted.
C7_ExcludedIffStrictlyLess ==
    \A c \in Callers :
        pc[c] \in {"allocRound", "deploy"} =>
            /\ \A n \in alloc[c].excludeNodes \ PreExcluded :
                  FreeMemory(n).err = Nil => FreeMemory(n).value < req[c].ResourceMeta.Memory
            /\ \A x \in alloc[c].accepted : ~(x.MemoryMetric < req[c].ResourceMeta.Memory)

\* C8: ServiceMap.Set is never invoked with a DatabaseID that is already a key
\* of the service map.
C8_SetOnFreshDatabaseID ==
    [][\A c \in Callers :
          (pc[c] = "set" /\ pc'[c] = "done") => ServiceMapGet(dbID[c]) = NilInstance]_vars

\* Get(id) reports ErrNoSuchDatabase and no node's databases include id.
Gone(id) == ServiceMapGet(id) = NilInstance /\ \A n \in Nodes : id \notin GetDatabases(n)

\* C9: when DropDatabase(id) returns nil, id is gone from the service map, and
\* an id that is gone stays gone until a CreateDatabase registers it.
C9_DroppedStaysGone ==
    [][/\ \A c \in Callers :
              (pc[c] = "delete" /\ pc'[c] = "done" /\ err'[c] = Nil) => Gone(req[c].DatabaseID)'
       /\ \A id \in DatabaseIDs :
              (Gone(id) /\ ~Gone(id)') =>
                  \E c \in Callers : pc[c] = "set" /\ dbID[c] = id /\ pc'[c] = "done" /\ err'[c] = Nil]_vars

C9_Witness ==
    \E c \in Callers :
        /\ pc[c] = "done" /\ req[c].op = "drop" /\ err[c] = Nil
        /\ \E d \in Callers : d # c /\ pc[d] = "set" /\ dbID[d] = req[c].DatabaseID

\* C10: DropDatabase is at ServiceMap.Delete only if every peer of the
\* instance returned nil from its DropDB call.
C10_DeleteOnlyAfterAllDropped ==
    \A c \in Callers : (req[c].op = "drop" /\ pc[c] = "delete") => DeployAllNil(c)

\* allocateNodes has returned ErrDatabaseAllocation to the caller.
AllocationFailed(c) == pc[c] = "done" /\ err[c] = ErrDatabaseAllocation

\* C11: allocateNodes returns after at most AllocationRounds ring lookups: it
\* never looks the ring up more often, its round counter never passes
\* AllocationRounds, and every step of its loop is the return or one more
\* lookup that returns peers or counts one more round. When it returns without
\* peers built in a round that accepted at least ResourceMeta.Node nodes, it
\* returns ErrDatabaseAllocation and nil Peers; with ResourceMeta.Node = 0 it
\* returns that error after no ring lookup.
C11_AllocationTerminates ==
    [][LET Returned ==
               \A c \in Callers :
                   /\ alloc[c].lookups <= DefaultAllocationRounds
                   /\ alloc[c].i <= DefaultAllocationRounds
                   /\ pc[c] = "done" => (AllocationFailed(c) /\ peers[c] = NilPeers)
                   /\ Allocated(c) => Cardinality(alloc[c].accepted) >= req[c].ResourceMeta.Node
                   /\ (req[c].op = "create" /\ req[c].ResourceMeta.Node = 0 /\ pc[c] # "allocEnter")
                         => (AllocationFailed(c) /\ alloc[c].lookups = 0)
       IN /\ Returned
          /\ Returned'
          /\ \A c \in Callers :
                pc[c] = "allocRound" =>
                    \/ pc'[c] = "done" /\ alloc'[c].lookups = alloc[c].lookups
                    \/ /\ alloc'[c].lookups = alloc[c].lookups + 1
                       /\ Allocated(c)' \/ alloc'[c].i = alloc[c].i + 1]_vars

C11_Witness ==
    /\ AllocationFailed(1)
    /\ req[1].ResourceMeta.Node = 2
    /\ alloc[1].lookups = DefaultAllocationRounds
    /\ Cardinality(alloc[1].excludeNodes) > 1

\* C12: without includeBPNodesForAllocation the ring is asked for Miners only,
\* every block producer is in the exclude list from before the first round and
\* none is in the Peers returned; with it the ring is asked for Miners, Leaders
\* and Followers and the exclude list is empty before the first round.
C12_BlockProducersKeptOut ==
    \A c \in Callers :
        /\ alloc[c].lookups > 0 =>
              alloc[c].rolesFilter = IF includeBP THEN {"Miner", "Leader", "Follower"} ELSE {"Miner"}
        /\ (~includeBP /\ pc[c] \in {"allocRound", "deploy"}) => GetBPs \subseteq alloc[c].excludeNodes
        /\ (~includeBP /\ Allocated(c)) => SeqToSet(peersToNodes(peers[c])) \cap GetBPs = {}
        /\ (includeBP /\ pc[c] = "allocRound" /\ alloc[c].lookups = 0) => alloc[c].excludeNodes = {}

C12_Witness ==
    /\ Allocated(1) /\ ~includeBP
    /\ Len(peers[1].Servers) = 2
    /\ alloc[1].lookups > 1

\* The callers inside a DialToNode call for node n that is not anonymous and
\* has a pool.
PoolCallers(n) ==
    { c \in Callers : /\ dpc[c] # "idle" /\ dcall[c].nodeID = n
                      /\ ~dcall[c].isAnonymous /\ ~dcall[c].poolNil }

\* Those of them that are dialing: between the start of dialToNodeEx and the
\* session made over the connection.
Dialing(n) == { c \in PoolCallers(n) : dpc[c] \in {"dialEx", "dial", "mux", "poolInstall"} }

\* C13: among the non-anonymous calls with a pool for one node, at most one is
\* dialing at any time and none while the pool has a live session for the
\* node; the pool never holds two sessions for one node; and every such call
\* that returns a stream returns one of the pool's live session for the node.
C13_OneDialPerNode ==
    [][/\ \A n \in Targets :
             /\ Cardinality(Dialing(n)') + Cardinality(LiveSession(n)') <= 1
             /\ Cardinality({ s \in pool' : sessions'[s].node = n }) <= 1
       /\ \A c \in Callers :
             (dpc[c] # "done" /\ dpc'[c] = "done" /\ c \in PoolCallers(dcall[c].nodeID)
                  /\ dret'[c].err = Nil)
                 => dret'[c].conn \in LiveSession(dcall[c].nodeID)']_vars

\* C14: an anonymous DialToNode never calls pool.Get, and no step of it
\* changes the pool or its sessions; when it returns a
\* stream, the stream is the only one of a session of the call's own, outside
\* the pool, over an anonymous connection of the call's own. A non-anonymous
\* call with a pool calls pool.Get and returns a stream of a pooled session.
C14_AnonymousBypassesPool ==
    [][\A c \in Callers :
          /\ dcall'[c].isAnonymous => (dcall'[c].poolGets = 0 /\ ~dcall'[c].viaPool)
          /\ (dpc'[c] # dpc[c] /\ (dcall[c].isAnonymous \/ dcall'[c].isAnonymous))
                => /\ pool' = pool
                   /\ \A s \in pool : sessions'[s] = sessions[s]
          /\ (dpc[c] # "done" /\ dpc'[c] = "done" /\ dret'[c].err = Nil /\ dcall[c].isAnonymous)
                => LET s == dret'[c].conn
                   IN /\ s = << c, dcall[c].no >> /\ s \in DOMAIN sessions' /\ s \notin pool'
                      /\ ~sessions'[s].pooled /\ sessions'[s].conn = s
                      /\ conns'[s].isAnonymous /\ ~conns'[s].pooled
                      /\ Cardinality({ i \in DOMAIN conns'[s].log : conns'[s].log[i] = Enciphered }) = 1
                      /\ \A d \in Callers \ {c} : dret'[d].conn # s
          /\ (dpc[c] # "done" /\ dpc'[c] = "done" /\ dret'[c].err = Nil
                  /\ ~dcall[c].isAnonymous /\ ~dcall[c].poolNil)
                => /\ dcall[c].poolGets = 1
                   /\ dret'[c].conn \in pool' /\ sessions'[dret'[c].conn].pooled]_vars

C14_Witness ==
    \E c \in Callers :
        /\ dpc[c] = "done" /\ dcall[c].isAnonymous /\ ~dcall[c].poolNil /\ dret[c].err = Nil
        /\ LiveSession(dcall[c].nodeID) # {}

\* C15: whatever went over a connection starts with the bytes of the identity
\* prelude in order (the anonymous node ID and a zero nonce on an anonymous
\* connection, the local node ID and the local nonce otherwise); the
\* encrypted connection is made, and bytes are sent enciphered, only after the
\* whole prelude; an anonymous dial reads neither the local node ID nor the
\* local nonce.
C15_PreludeFirst ==
    \A id \in DOMAIN conns :
        LET k == conns[id]
            prelude == [ i \in 1..(IDBytes + NonceBytes) |->
                           IF k.isAnonymous
                           THEN IF i <= IDBytes THEN "anonymous node id" ELSE "zero"
                           ELSE IF i <= IDBytes THEN "local node id" ELSE "local nonce" ]
        IN /\ \A i \in 1..Len(k.log) :
                 /\ i <= Len(prelude) => k.log[i] = prelude[i]
                 /\ i = Len(prelude) + 1 => k.log[i] = NewConn
                 /\ i > Len(prelude) + 1 => k.log[i] = Enciphered
           /\ k.isAnonymous => k.read = {}

C15_Witness ==
    \E a, b \in DOMAIN conns :
        /\ conns[a].isAnonymous /\ ~conns[b].isAnonymous
        /\ Len(conns[a].log) > IDBytes + NonceBytes + 1
        /\ Len(conns[b].log) > IDBytes + NonceBytes + 1

C17_EnvelopeRoundTrip ==
    (encoded # NilWrapper /\ encoded.Transaction # NilTx) =>
        LET T == encoded.Transaction
            tag == IF T.rt = "TxA" THEN 0 ELSE 1
        IN /\ wire.kind = "array"
           /\ Len(wire.elems) = 2
           /\ wire.elems[1] = [kind |-> "uint", v |-> tag]
           /\ (decoded /\ txTypeMapping[tag] = T.rt) => (decErr = Nil /\ wrapper.Transaction = T)

C17_Witness ==
    /\ decoded
    /\ encoded = Wrapper(Tx("TxB", MaxField))
    /\ txTypeMapping[1] = "TxB"
    /\ txTypeMapping[0] = "TxA"
    /\ before = NilTx

\* C18 as claimed: a value that is not an array, or an array of a length
\* other than 2, is decoded with ErrInvalidContainerType and leaves no
\* transaction in the wrapper.
C18_NotTwoArrayFails ==
    (decoded /\ (wire.kind # "array" \/ Len(wire.elems) # 2))
        => (decErr = ErrInvalidContainerType /\ wrapper.Transaction = NilTx)

\* C18, amended: a value that is not an array is decoded with
\* ErrInvalidContainerType and leaves no transaction in the wrapper.
C18_NotArrayFails ==
    (decoded /\ wire.kind # "array")
        => (decErr = ErrInvalidContainerType /\ wrapper.Transaction = NilTx)

C18_Witness ==
    /\ decoded
    /\ wire = MpMap(MaxField)
    /\ before # NilTx
    /\ txTypeMapping[0] # NoType

\* C19: an array whose first element is nil, or a tag nothing is registered
\* for, is decoded with ErrInvalidTransactionType, which is not
\* ErrInvalidContainerType, and leaves no transaction in the wrapper, whatever
\* the wrapper held before.
C19_UnregisteredTagFails ==
    (/\ decoded
     /\ wire.kind = "array"
     /\ Len(wire.elems) >= 1
     /\ \/ wire.elems[1] = MpNil
        \/ /\ wire.elems[1].kind = "uint"
           /\ wire.elems[1].v \in TxTags
           /\ txTypeMapping[wire.elems[1].v] = NoType)
        => /\ decErr = ErrInvalidTransactionType
           /\ decErr # ErrInvalidContainerType
           /\ wrapper.Transaction = NilTx

C19_Witness ==
    /\ decoded
    /\ before # NilTx
    /\ wire.kind = "array" /\ Len(wire.elems) = 2
    /\ wire.elems[1] = MpUint(1) /\ wire.elems[2] = MpMap(MaxField)
    /\ txTypeMapping[1] = NoType /\ txTypeMapping[0] # NoType

\* C20: the DSN formatted from a Config whose DatabaseID is a non-empty string
\* of hex characters is "covenantsql://" followed by the DatabaseID, and
\* ParseDSN of it returns no error and a Config equal to the one formatted.
C20_DSNRoundTrip ==
    (/\ dsn.from = "FormatDSN"
     /\ cfg.DatabaseID # << >>
     /\ \A i \in DOMAIN cfg.DatabaseID : cfg.DatabaseID[i] \in HexChars)
        => /\ dsn.str = << "c", "o", "v", "e", "n", "a", "n", "t", "s", "q", "l", ":", "/", "/" >>
                            \o cfg.DatabaseID
           /\ parsed # NoParse => (parsed.err = Nil /\ parsed.cfg = cfg)

C20_Witness ==
    /\ dsn.from = "FormatDSN"
    /\ parsed # NoParse
    /\ Len(cfg.DatabaseID) = MaxIDLen
    /\ cfg.DatabaseID[1] = "c"
    /\ \A i \in DOMAIN cfg.DatabaseID : cfg.DatabaseID[i] \in HexChars

\* C21: CreateDatabase returns nil only from ServiceMap.Set having stored the
\* instance, and then the response carries that instance; when it returns an
\* error the response carries no instance, and when Set fails the error is
\* Set's and the service map is as it was.
C21_ResponseOnlyAfterSet ==
    [][\A c \in Callers :
          (req'[c].op = "create" /\ pc[c] # "done" /\ pc'[c] = "done") =>
              /\ err'[c] = Nil =>
                    /\ pc[c] = "set"
                    /\ resp'[c] = InstanceMeta(c)
                    /\ dbID[c] \in DOMAIN dbMap' /\ dbMap'[dbID[c]] = InstanceMeta(c)
              /\ err'[c] # Nil => resp'[c] = NilInstance
              /\ (pc[c] = "set" /\ err'[c] # Nil) =>
                    (err'[c] = ErrStoreCommit /\ dbMap' = dbMap /\ nodeMap' = nodeMap)]_vars

C21_Witness ==
    \E c, d \in Callers :
        /\ req[c].op = "create" /\ pc[c] = "done" /\ err[c] = ErrStoreCommit /\ resp[c] = NilInstance
        /\ req[d].op = "create" /\ pc[d] = "done" /\ err[d] = Nil /\ resp[d] = dbMap[dbID[d]]

\* C28: when ServiceMap.Set fails, CreateDatabase returns Set's error and the
\* miners are left as the deploy fan-out left them: each was sent CreateDB,
\* none is sent DropDB, the fan-out had returned nil, and the service map is
\* not written.
C28_NoCompensationOnCommitFailure ==
    [][\A c \in Callers :
          (pc[c] = "set" /\ pc'[c] = "done" /\ err'[c] # Nil) =>
              /\ err'[c] = ErrStoreCommit
              /\ dbMap' = dbMap /\ nodeMap' = nodeMap
              /\ fan[c].ret = Nil
              /\ fan'[c].sent = { << n, "CreateDB" >> : n \in SeqToSet(peersToNodes(peers[c])) }]_vars

C28_Witness ==
    \E c \in Callers :
        /\ req[c].op = "create" /\ pc[c] = "done" /\ err[c] = ErrStoreCommit
        /\ DeployAllNil(c)
        /\ dbID[c] \notin DOMAIN dbMap
        /\ \A n \in Chosen(c) : << n, "DropDB" >> \notin fan[c].sent

\* C22: a CreateDatabase, DropDatabase or GetDatabase request whose signature
\* does not verify is answered with the verification error and nothing else
\* is done for it: no DatabaseID is mined, no node allocated, no request sent
\* to a miner, the response is left empty, and the step that answers it
\* leaves the service map as it was.
C22_BadSignatureDoesNothing ==
    [][\A c \in Callers :
          (req'[c].op \in {"create", "drop", "get"} /\ ~req'[c].valid) =>
              /\ pc'[c] = "done"
              /\ err'[c] = ErrSignVerification
              /\ resp'[c] = NilInstance
              /\ startNonce'[c] = 0
              /\ req'[c].op = "create" => dbID'[c] = NoDatabaseID
              /\ alloc'[c] = IdleAlloc
              /\ peers'[c] = NilPeers
              /\ fan'[c] = IdleFan
              /\ pc[c] = "idle" => (dbMap' = dbMap /\ nodeMap' = nodeMap)]_vars

C22_Witness ==
    \E c, d \in Callers :
        /\ pc[c] = "done" /\ req[c].op = "get" /\ ~req[c].valid
        /\ req[c].DatabaseID \in DOMAIN dbMap
        /\ pc[d] = "done" /\ req[d].op = "drop" /\ ~req[d].valid
        /\ req[d].DatabaseID \in DOMAIN dbMap

\* C23: in round r of allocateNodes, counted from 0, the ring is asked for
\* ResourceMeta.Node * (r + 1) nodes, whatever the earlier rounds did.
C23_RangeGrowsEveryRound ==
    \A c \in Callers :
        (pc[c] = "allocRound" /\ alloc[c].i < DefaultAllocationRounds)
            => alloc[c].curRange = req[c].ResourceMeta.Node * (alloc[c].i + 1)

\* C24: within one allocateNodes call the excluded set only grows; a node in
\* it is not a candidate of a later round, so its metrics are not fetched
\* again, it is not accepted and it is not in the Peers returned; a candidate
\* whose free-memory metric is absent is excluded in the round that probed it,
\* and the metric error is not what allocateNodes returns.
C24_ExcludedStaysExcluded ==
    [][\A c \in Callers :
          (pc[c] = "allocRound" /\ (alloc'[c] # alloc[c] \/ pc'[c] # pc[c])) =>
              /\ alloc[c].excludeNodes \subseteq alloc'[c].excludeNodes
              /\ alloc'[c].lookups # alloc[c].lookups =>
                    /\ alloc'[c].probed \cap alloc[c].excludeNodes = {}
                    /\ { x.NodeID : x \in alloc'[c].accepted } \cap alloc'[c].excludeNodes = {}
                    /\ \A n \in alloc'[c].probed :
                          FreeMemory(n).err # Nil => n \in alloc'[c].excludeNodes
              /\ pc'[c] = "deploy" =>
                    SeqToSet(peersToNodes(peers'[c])) \cap alloc'[c].excludeNodes = {}
              /\ pc'[c] # "allocRound" => err'[c] \in {Nil, ErrDatabaseAllocation}]_vars

\* A call that returned peers after a round in which a probed node had no
\* free-memory metric, with a node excluded in an earlier round.
C24_Witness ==
    /\ pc[1] = "deploy"
    /\ alloc[1].i > 0
    /\ \E n \in alloc[1].probed : FreeMemory(n).err = ErrMetricNotCollected
    /\ \E n \in alloc[1].excludeNodes \ PreExcluded :
          n \notin alloc[1].probed /\ n \in SeqToSet(alloc[1].nodes)

\* The nodes of the Peers allocateNodes returned.
ChosenNodes(c) == SeqToSet(peersToNodes(peers[c]))

\* C25: when the successful round accepted more than ResourceMeta.Node
\* candidates, no accepted candidate left out has strictly more free memory
\* than a chosen one.
C25_ChosenHaveMostFreeMemory ==
    \A c \in Callers :
        (Allocated(c) /\ Cardinality(alloc[c].accepted) > req[c].ResourceMeta.Node) =>
            /\ Cardinality(ChosenNodes(c)) = req[c].ResourceMeta.Node
            /\ \A a, b \in alloc[c].accepted :
                  (a.NodeID \notin ChosenNodes(c) /\ b.NodeID \in ChosenNodes(c))
                      => ~(a.MemoryMetric > b.MemoryMetric)

C25_Witness ==
    /\ Allocated(1)
    /\ req[1].ResourceMeta.Node = 2
    /\ Cardinality(alloc[1].accepted) = 3
    /\ \E a, b \in alloc[1].accepted :
          /\ a.NodeID \notin ChosenNodes(1) /\ b.NodeID \in ChosenNodes(1)
          /\ a.MemoryMetric < b.MemoryMetric

\* C26: allocateNodes is deterministic: any order sort.Slice may leave the
\* accepted candidates in gives the Peers that were returned, the same chosen
\* nodes and the same Leader, and among candidates of equal free memory the
\* ones of lesser NodeID are chosen.
C26_AllocationDeterministic ==
    \A c \in Callers :
        Allocated(c) =>
            /\ \A sorted \in SortedByMetric(alloc[c].accepted) :
                  LET allocated == Take(sorted, req[c].ResourceMeta.Node)
                      nodeAllocated == [k \in 1..Len(allocated) |-> allocated[k].NodeID]
                  IN buildPeers(peers[c].Term, alloc[c].nodes, nodeAllocated) = peers[c]
            /\ \A a, b \in alloc[c].accepted :
                  (a.NodeID \notin ChosenNodes(c) /\ b.NodeID \in ChosenNodes(c)
                   /\ a.MemoryMetric = b.MemoryMetric) => b.NodeID < a.NodeID

\* C27: the rollback fan-out starts, a DropDB rollback call is sent, and
\* batchSendSingleSvcReq returns, only when no call of the fan-out before it
\* is still in flight: every target's call has returned.
C27_DecideAfterAllCompletions ==
    [][\A c \in Callers :
          /\ (fan[c].phase = "req" /\ fan'[c].phase = "rollback") =>
                (fan[c].pending = {} /\ DOMAIN fan[c].results = Chosen(c))
          /\ (fan[c].phase # "none" /\ fan[c].ret = Running /\ fan'[c].ret # Running) =>
                fan[c].pending = {}
          /\ (fan[c].phase = "req" /\ pc'[c] # pc[c]) => fan[c].pending = {}
          /\ \A n \in Nodes :
                (req[c].op = "create" /\ << n, "DropDB" >> \in fan'[c].sent \ fan[c].sent) =>
                    DOMAIN fan[c].results = Chosen(c)]_vars

C27_Witness ==
    \E c \in Callers :
        /\ req[c].op = "create"
        /\ fan[c].phase = "rollback"
        /\ fan[c].pending # {}
        /\ \E n \in Chosen(c) : << n, "DropDB" >> \in fan[c].sent
        /\ \E n \in Chosen(c) : fan[c].results[n] = Nil
        /\ fan[c].results[fan[c].nodes[Len(fan[c].nodes)]] = ErrCallNode

C30_MissingBodyGivesZeroValue ==
    (/\ decoded
     /\ wire.kind = "array"
     /\ Len(wire.elems) \in {1, 2}
     /\ wire.elems[1].kind = "uint"
     /\ wire.elems[1].v \in TxTags
     /\ txTypeMapping[wire.elems[1].v] \in TxTypes
     /\ Len(wire.elems) = 2 => wire.elems[2] = MpNil)
        => /\ decErr = Nil
           /\ wrapper.Transaction = [rt |-> txTypeMapping[wire.elems[1].v], X |-> 0]

C30_Witness ==
    /\ decoded
    /\ wire = MpArray(<< MpUint(1) >>)
    /\ txTypeMapping[1] = "TxB"
    /\ before = Tx("TxB", MaxField)
    /\ wrapper.Transaction = Tx("TxB", 0)

\* C31: a DropDatabase whose DropDB fan-out reports an error returns that
\* error and sends the miners nothing more: there is no second fan-out for a
\* drop, and no nil request goes to any miner.
C31_DropHasNoSecondFanOut ==
    \A c \in Callers :
        req[c].op = "drop" =>
            /\ fan[c].phase # "rollback"
            /\ \A n \in Nodes : << n, "nil" >> \notin fan[c].sent
            /\ (pc[c] = "done" /\ fan[c].ret \notin {Running, Nil}) => err[c] = fan[c].ret

\* C32: every connection net.Dial opened inside dial is wrapped in the
\* encrypted connection that dial returns, or has been closed when dial
\* returns.
C32_NoSocketLeftOpen ==
    \A id \in DOMAIN conns : NewConn \in SeqToSet(conns[id].log) \/ conns[id].closed

\* C33: in generateDatabaseID no worker of the miner sends on the nonce
\* channel after the allocator has closed it, whatever the interleaving of
\* the workers with the two closes.
C33_NoSendOnClosedChannel ==
    \A w \in Workers : workers[w].st # "panic"

====
